---- MODULE Spec2Model ----
(***************************************************************************)
(* Link-claim and access-gate subsystem of the fsub bot.                   *)
(*                                                                         *)
(*   storage.py : FileRecord, SQLiteStorage, MongoStorage, build_storage   *)
(*   fsub.py    : is_user_joined_all, build_join_keyboard                  *)
(*   app.py     : deep_link_start, done_cb, gate_or_send,                  *)
(*                _retryable_copy_message                                  *)
(*                                                                         *)
(* Identities, codes and file ids are small integers; None / SQL NULL is   *)
(* the value NULL, which is no identity, no code and no file id.           *)
(***************************************************************************)
EXTENDS Integers, Sequences, FiniteSets, TLC

\* ------------------------------------------------------------------ bounds
NumProcs == 2        \* processes issuing storage calls concurrently
NumUsers == 2        \* requesting identities
NumCodes == 1        \* short codes
NumFiles == 2        \* file ids
NumMsgs  == 1        \* message ids inside the archive channel
NumTargets == 1      \* entries of CFG.force_sub_targets
NumReqs  == 1        \* bot requests in progress at once (at most NumProcs)

NULL == 0            \* Python None / SQL NULL

Procs   == 1..NumProcs
Users   == 1..NumUsers
Codes   == 1..NumCodes
FileIds == 1..NumFiles
MsgIds  == 1..NumMsgs
Reqs    == 1..NumReqs

ChannelId == 100     \* CFG.channel_id, the archive channel

VARIABLES
    backend,   \* "sqlite" | "mongo": the variant build_storage returned
    files,     \* files table / collection: file_id -> FileRecord
    links,     \* links table / collection: code -> [file_id, owner_user_id]
    call,      \* per process: the claim_link call in flight
    ev,        \* the storage call that returned in the last step, if any
    okSet,     \* history: code -> identities that ever received OK
    results,   \* race harness: per process the status its call returned
    req,       \* per process: the bot request (handler) it is running
    prompts,   \* gate prompts on display: [chat, data] of their re-check button
    rv,        \* summary of the request that ended in the last step, if any
    fn,        \* a call of is_user_joined_all / _retryable_copy_message on its own
    ing,       \* the save_file (ingest) handlers running, by process
    iv,        \* summary of the ingest that ended in the last step, if any
    twin       \* an SQLiteStorage and a MongoStorage given the same calls

vars == <<backend, files, links, call, ev, okSet, results, req, prompts, rv,
          fn, ing, iv, twin>>
appvars == <<req, prompts, rv>>
auxvars == <<fn, ing, iv, twin>>

\* ------------------------------------------------------------ FileRecord
FileRecord(file_id, db_chat_id, db_message_id, kind, caption) ==
    [file_id |-> file_id, db_chat_id |-> db_chat_id,
     db_message_id |-> db_message_id, kind |-> kind, caption |-> caption]

NoRecord == FileRecord(NULL, NULL, NULL, "", "")

Kinds == {"document"}

Records ==
    {FileRecord(f, ChannelId, m, k, "") : f \in FileIds, m \in MsgIds, k \in Kinds}

\* A row of the links table.
LinkRow(file_id, owner) == [file_id |-> file_id, owner_user_id |-> owner]

\* What a SELECT / find_one on links yields: the row, or nothing.
NoRow == [found |-> FALSE, file_id |-> NULL, owner_user_id |-> NULL]
Row(r) == [found |-> TRUE, file_id |-> r.file_id, owner_user_id |-> r.owner_user_id]

\* ------------------------------------------------------- SQLiteStorage
\* INSERT ... ON CONFLICT(file_id) DO UPDATE SET every column
SQLiteStorage_upsert(fs, rec) ==
    [f \in DOMAIN fs \cup {rec.file_id} |-> IF f = rec.file_id THEN rec ELSE fs[f]]

SQLiteStorage_get(fs, file_id) ==
    IF file_id \in DOMAIN fs THEN fs[file_id] ELSE NoRecord

\* INSERT (code, file_id, NULL) ON CONFLICT(code) DO UPDATE SET file_id
SQLiteStorage_save_link_reset(lk, code, file_id) ==
    [c \in DOMAIN lk \cup {code} |-> IF c = code THEN LinkRow(file_id, NULL) ELSE lk[c]]

SQLiteStorage_save_link(lk, code, file_id) ==
    [c \in DOMAIN lk \cup {code} |->
        IF c # code THEN lk[c]
        ELSE IF code \in DOMAIN lk
             THEN LinkRow(file_id, lk[code].owner_user_id)
             ELSE LinkRow(file_id, NULL)]

SQLiteStorage_get_file_id_by_code(lk, code) ==
    IF code \in DOMAIN lk THEN lk[code].file_id ELSE NULL

\* SELECT file_id, owner_user_id FROM links WHERE code=?
SQLiteStorage_select_link(lk, code) ==
    IF code \in DOMAIN lk THEN Row(lk[code]) ELSE NoRow

\* claim_link up to its first return or to the conditional update:
\* the decision taken on the row just read.
SQLiteStorage_claim_link_read_invalid_as_not_owner(row, user_id) ==
    IF ~row.found THEN [next |-> "ret", status |-> "NOT_OWNER", out |-> NULL]
    ELSE IF row.owner_user_id = NULL
         THEN [next |-> "update", status |-> "", out |-> row.file_id]
    ELSE IF row.owner_user_id # user_id
         THEN [next |-> "ret", status |-> "NOT_OWNER", out |-> NULL]
    ELSE [next |-> "ret", status |-> "OK", out |-> row.file_id]

SQLiteStorage_claim_link_read_no_file(row, user_id) ==
    IF ~row.found THEN [next |-> "ret", status |-> "INVALID", out |-> NULL]
    ELSE IF row.owner_user_id = NULL
         THEN [next |-> "update", status |-> "", out |-> row.file_id]
    ELSE IF row.owner_user_id # user_id
         THEN [next |-> "ret", status |-> "NOT_OWNER", out |-> NULL]
    ELSE [next |-> "ret", status |-> "OK", out |-> NULL]

SQLiteStorage_claim_link_read(row, user_id) ==
    IF ~row.found THEN [next |-> "ret", status |-> "INVALID", out |-> NULL]
    ELSE IF row.owner_user_id = NULL
         THEN [next |-> "update", status |-> "", out |-> row.file_id]
    ELSE IF row.owner_user_id # user_id
         THEN [next |-> "ret", status |-> "NOT_OWNER", out |-> NULL]
    ELSE [next |-> "ret", status |-> "OK", out |-> row.file_id]

\* UPDATE links SET owner_user_id=? WHERE code=? AND owner_user_id IS NULL
SQLiteStorage_update_owner_unconditional(lk, code, user_id) ==
    IF code \in DOMAIN lk
    THEN [lk EXCEPT ![code].owner_user_id = user_id]
    ELSE lk

SQLiteStorage_update_owner(lk, code, user_id) ==
    IF code \in DOMAIN lk /\ lk[code].owner_user_id = NULL
    THEN [lk EXCEPT ![code].owner_user_id = user_id]
    ELSE lk

\* SELECT owner_user_id ... ; if int(owner2) == int(user_id): OK else NOT_OWNER
SQLiteStorage_claim_link_recheck(lk, code, user_id, file_id) ==
    IF lk[code].owner_user_id = user_id
    THEN [status |-> "OK", out |-> file_id]
    ELSE [status |-> "NOT_OWNER", out |-> NULL]

\* -------------------------------------------------------- MongoStorage
\* update_one({"file_id": ...}, {"$set": rec.__dict__}, upsert=True)
MongoStorage_upsert(fs, rec) ==
    IF rec.file_id \in DOMAIN fs
    THEN [fs EXCEPT ![rec.file_id] = rec]
    ELSE [f \in DOMAIN fs \cup {rec.file_id} |-> IF f = rec.file_id THEN rec ELSE fs[f]]

MongoStorage_get(fs, file_id) ==
    IF file_id \in DOMAIN fs THEN fs[file_id] ELSE NoRecord

\* update_one({"code": code}, {"$set": {file_id}, "$setOnInsert": {code, owner None}},
\*            upsert=True)
MongoStorage_save_link_set_owner(lk, code, file_id) ==
    [c \in DOMAIN lk \cup {code} |-> IF c = code THEN LinkRow(file_id, NULL) ELSE lk[c]]

MongoStorage_save_link_insert_only(lk, code, file_id) ==
    IF code \in DOMAIN lk
    THEN lk
    ELSE [c \in DOMAIN lk \cup {code} |->
             IF c = code THEN LinkRow(file_id, NULL) ELSE lk[c]]

MongoStorage_save_link(lk, code, file_id) ==
    IF code \in DOMAIN lk
    THEN [lk EXCEPT ![code].file_id = file_id]
    ELSE [c \in DOMAIN lk \cup {code} |->
             IF c = code THEN LinkRow(file_id, NULL) ELSE lk[c]]

MongoStorage_get_file_id_by_code(lk, code) ==
    IF code \in DOMAIN lk THEN lk[code].file_id ELSE NULL

\* find_one({"code": code}, {"_id": 0, "file_id": 1, "owner_user_id": 1})
MongoStorage_find_link(lk, code) ==
    IF code \in DOMAIN lk THEN Row(lk[code]) ELSE NoRow

MongoStorage_claim_link_read_any_owner(doc, user_id) ==
    IF ~doc.found THEN [next |-> "ret", status |-> "INVALID", out |-> NULL]
    ELSE IF doc.owner_user_id = NULL
         THEN [next |-> "update", status |-> "", out |-> doc.file_id]
    ELSE [next |-> "ret", status |-> "OK", out |-> doc.file_id]

MongoStorage_claim_link_read(doc, user_id) ==
    IF ~doc.found THEN [next |-> "ret", status |-> "INVALID", out |-> NULL]
    ELSE IF doc.owner_user_id = NULL
         THEN [next |-> "update", status |-> "", out |-> doc.file_id]
    ELSE IF doc.owner_user_id # user_id
         THEN [next |-> "ret", status |-> "NOT_OWNER", out |-> NULL]
    ELSE [next |-> "ret", status |-> "OK", out |-> doc.file_id]

\* update_one({"code": code, "owner_user_id": None}, {"$set": {"owner_user_id": user}})
\* res.modified_count
MongoStorage_modified_count(lk, code) ==
    IF code \in DOMAIN lk /\ lk[code].owner_user_id = NULL THEN 1 ELSE 0

MongoStorage_update_owner(lk, code, user_id) ==
    IF code \in DOMAIN lk /\ lk[code].owner_user_id = NULL
    THEN [lk EXCEPT ![code].owner_user_id = user_id]
    ELSE lk

\* if res.modified_count == 1: OK else NOT_OWNER
MongoStorage_claim_link_result(modified_count, file_id) ==
    IF modified_count = 1
    THEN [status |-> "OK", out |-> file_id]
    ELSE [status |-> "NOT_OWNER", out |-> NULL]

\* claim_link run without interruption: [links, status, out]
SQLiteStorage_claim_link(lk, code, user_id) ==
    LET d == SQLiteStorage_claim_link_read(SQLiteStorage_select_link(lk, code), user_id)
        lk2 == SQLiteStorage_update_owner(lk, code, user_id)
        r == SQLiteStorage_claim_link_recheck(lk2, code, user_id, d.out)
    IN IF d.next = "ret"
       THEN [links |-> lk, status |-> d.status, out |-> d.out]
       ELSE [links |-> lk2, status |-> r.status, out |-> r.out]

MongoStorage_claim_link(lk, code, user_id) ==
    LET d == MongoStorage_claim_link_read(MongoStorage_find_link(lk, code), user_id)
        r == MongoStorage_claim_link_result(MongoStorage_modified_count(lk, code), d.out)
    IN IF d.next = "ret"
       THEN [links |-> lk, status |-> d.status, out |-> d.out]
       ELSE [links |-> MongoStorage_update_owner(lk, code, user_id),
             status |-> r.status, out |-> r.out]

\* ------------------------------------------- Storage (build_storage)
\* The Storage protocol, dispatched on the variant build_storage selected.
upsert(fs, rec) ==
    IF backend = "mongo" THEN MongoStorage_upsert(fs, rec)
    ELSE SQLiteStorage_upsert(fs, rec)

get(fs, file_id) ==
    IF backend = "mongo" THEN MongoStorage_get(fs, file_id)
    ELSE SQLiteStorage_get(fs, file_id)

save_link(lk, code, file_id) ==
    IF backend = "mongo" THEN MongoStorage_save_link(lk, code, file_id)
    ELSE SQLiteStorage_save_link(lk, code, file_id)

get_file_id_by_code(lk, code) ==
    IF backend = "mongo" THEN MongoStorage_get_file_id_by_code(lk, code)
    ELSE SQLiteStorage_get_file_id_by_code(lk, code)

claim_link_read(lk, code, user_id) ==
    IF backend = "mongo"
    THEN MongoStorage_claim_link_read(MongoStorage_find_link(lk, code), user_id)
    ELSE SQLiteStorage_claim_link_read(SQLiteStorage_select_link(lk, code), user_id)

claim_link(lk, code, user_id) ==
    IF backend = "mongo" THEN MongoStorage_claim_link(lk, code, user_id)
    ELSE SQLiteStorage_claim_link(lk, code, user_id)

\* ------------------------------------------------------------- events
\* first: a claim_link call that read the owner unset (a first claim).
Event(op, code, user, file_id, status, out, rec) ==
    [op |-> op, code |-> code, user |-> user, file_id |-> file_id,
     status |-> status, out |-> out, rec |-> rec, first |-> FALSE]

NoEvent == Event("none", NULL, NULL, NULL, "", NULL, NoRecord)

ClaimEvent(code, user, status, out, first) ==
    [Event("claim_link", code, user, NULL, status, out, NoRecord)
        EXCEPT !.first = first]

NoResult == [status |-> "", first |-> FALSE]

Idle == [pc |-> "idle", code |-> NULL, user |-> NULL, file_id |-> NULL]

\* okSet after a claim_link(code, user) call returned status.
Granted(code, user, status) ==
    IF status = "OK" THEN [okSet EXCEPT ![code] = @ \cup {user}] ELSE okSet

\* ------------------------------------------------ storage call steps
\* Each statement the storage executes (one SQL statement with its commit,
\* one Mongo command) is atomic; a claim_link call is up to three of them.
UpsertStep(rec) ==
    /\ files' = upsert(files, rec)
    /\ ev' = Event("upsert", NULL, NULL, rec.file_id, "", NULL, rec)
    /\ UNCHANGED <<backend, links, call, okSet>>

GetStep(file_id) ==
    /\ ev' = Event("get", NULL, NULL, file_id, "", NULL, get(files, file_id))
    /\ UNCHANGED <<backend, files, links, call, okSet>>

SaveLinkStep(code, file_id) ==
    /\ links' = save_link(links, code, file_id)
    /\ ev' = Event("save_link", code, NULL, file_id, "", NULL, NoRecord)
    /\ UNCHANGED <<backend, files, call, okSet>>

GetFileIdByCodeStep(code) ==
    /\ ev' = Event("get_file_id_by_code", code, NULL, NULL, "",
                   get_file_id_by_code(links, code), NoRecord)
    /\ UNCHANGED <<backend, files, links, call, okSet>>

\* A whole claim_link call with no other statement in between.
ClaimLinkStep(code, user_id) ==
    /\ LET r == claim_link(links, code, user_id) IN
         /\ links' = r.links
         /\ ev' = ClaimEvent(code, user_id, r.status, r.out,
                          claim_link_read(links, code, user_id).next = "update")
         /\ okSet' = Granted(code, user_id, r.status)
    /\ UNCHANGED <<backend, files, call>>

\* claim_link: the first read, and the returns taken straight from it.
ClaimLinkReadStep(p, code, user_id) ==
    /\ call[p].pc = "idle"
    /\ LET d == claim_link_read(links, code, user_id) IN
         IF d.next = "ret"
         THEN /\ ev' = ClaimEvent(code, user_id, d.status, d.out, FALSE)
              /\ okSet' = Granted(code, user_id, d.status)
              /\ UNCHANGED call
         ELSE /\ call' = [call EXCEPT ![p] =
                    [pc |-> "update", code |-> code, user |-> user_id,
                     file_id |-> d.out]]
              /\ ev' = NoEvent
              /\ UNCHANGED okSet
    /\ UNCHANGED <<backend, files, links>>

\* claim_link: the conditional update. SQLite goes on to re-read the owner;
\* Mongo returns on the update's modified_count.
ClaimLinkUpdateStep(p) ==
    /\ call[p].pc = "update"
    /\ LET c == call[p] IN
         IF backend = "mongo"
         THEN LET r == MongoStorage_claim_link_result(
                          MongoStorage_modified_count(links, c.code), c.file_id) IN
              /\ links' = MongoStorage_update_owner(links, c.code, c.user)
              /\ ev' = ClaimEvent(c.code, c.user, r.status, r.out, TRUE)
              /\ okSet' = Granted(c.code, c.user, r.status)
              /\ call' = [call EXCEPT ![p] = Idle]
         ELSE /\ links' = SQLiteStorage_update_owner(links, c.code, c.user)
              /\ ev' = NoEvent
              /\ call' = [call EXCEPT ![p].pc = "recheck"]
              /\ UNCHANGED okSet
    /\ UNCHANGED <<backend, files>>

\* claim_link (SQLite): re-read the owner and compare it with the caller.
ClaimLinkRecheckStep(p) ==
    /\ call[p].pc = "recheck"
    /\ LET c == call[p]
           r == SQLiteStorage_claim_link_recheck(links, c.code, c.user, c.file_id) IN
         /\ ev' = ClaimEvent(c.code, c.user, r.status, r.out, TRUE)
         /\ okSet' = Granted(c.code, c.user, r.status)
         /\ call' = [call EXCEPT ![p] = Idle]
    /\ UNCHANGED <<backend, files, links>>

\* ------------------------------------------------------------ fsub.py
\* CFG.force_sub_targets: odd targets are "@username", even ones "-100..." ids.
ForceSubTargets == [i \in 1..NumTargets |-> i]
IsUsername(t) == t % 2 = 1

ButtonsPerRow == 3   \* CFG.buttons_per_row
JoinText == "join"   \* CFG.join_text

\* What get_chat_member yields for one target: a member whose status is one
\* of those the comment in is_user_joined_all lists, a member with some
\* other status ("other"), a member object with no status ("None"), or an
\* exception ("error").
Answers ==
    {"member", "administrator", "creator", "restricted", "left", "kicked",
     "other", "None", "error"}

\* answers[i]: the oracle's outcome for (targets[i], user_id)
RECURSIVE joined_loop(_, _, _)
joined_loop(answers, targets, i) ==
    IF i > Len(targets) THEN TRUE
    ELSE IF answers[i] = "error" THEN FALSE
    ELSE IF answers[i] \in {"left", "kicked"} THEN FALSE
    ELSE joined_loop(answers, targets, i + 1)

RECURSIVE joined_loop_fail_open(_, _, _)
joined_loop_fail_open(answers, targets, i) ==
    IF i > Len(targets) THEN TRUE
    ELSE IF answers[i] = "error" THEN joined_loop_fail_open(answers, targets, i + 1)
    ELSE IF answers[i] \in {"left", "kicked"} THEN FALSE
    ELSE joined_loop_fail_open(answers, targets, i + 1)

is_user_joined_all_fail_open(answers, targets) ==
    IF targets = <<>> THEN TRUE ELSE joined_loop_fail_open(answers, targets, 1)

is_user_joined_all(answers, targets) ==
    IF targets = <<>> THEN TRUE ELSE joined_loop(answers, targets, 1)

Button(text, url, callback_data) ==
    [text |-> text, url |-> url, callback_data |-> callback_data]

CallbackData(tag, file_id) == [tag |-> tag, file_id |-> file_id]
NoData == CallbackData("", NULL)

JoinUrl(t) == IF IsUsername(t) THEN <<"https://t.me/", t>> ELSE <<"https://t.me/">>

RECURSIVE join_rows(_, _, _, _, _, _)
join_rows(targets, buttons_per_row, join_text, idx, rows, buf) ==
    IF idx > Len(targets)
    THEN IF buf # <<>> THEN Append(rows, buf) ELSE rows
    ELSE LET buf2 == Append(buf, Button(<<join_text, idx>>, JoinUrl(targets[idx]), NoData))
         IN IF Len(buf2) >= buttons_per_row
            THEN join_rows(targets, buttons_per_row, join_text, idx + 1,
                           Append(rows, buf2), <<>>)
            ELSE join_rows(targets, buttons_per_row, join_text, idx + 1, rows, buf2)

\* InlineKeyboardMarkup: the rows of join buttons, then the re-check button.
build_join_keyboard(targets, buttons_per_row, join_text, done_callback_data) ==
    Append(join_rows(targets, buttons_per_row, join_text, 1, <<>>, <<>>),
           <<Button("Sudah Join", <<>>, done_callback_data)>>)

\* The callback data of the markup's last button (the re-check affordance).
DoneButtonData(kb) == kb[Len(kb)][1].callback_data

\* ------------------------------------------------------------- app.py
CB_DONE == "fsub_done"
Tries == 3           \* _retryable_copy_message(..., tries=3)

BotId == NumUsers + 1    \* the bot's own identity, author of its messages

\* What copy_message does on one attempt.
Outcomes == {"ok", "TimedOut", "NetworkError", "Forbidden"}

\* One pass of the loop of _retryable_copy_message, attempt i (from 0).
retryable_copy_message_swallow(i, tries, outcome) ==
    IF outcome = "ok" THEN [next |-> "return", i |-> i]
    ELSE IF outcome \in {"TimedOut", "NetworkError"}
         THEN IF i + 1 < tries
              THEN [next |-> "retry", i |-> i + 1]
              ELSE [next |-> "return", i |-> i + 1]
    ELSE [next |-> "raise", i |-> i]

retryable_copy_message_retry_all(i, tries, outcome) ==
    IF outcome = "ok" THEN [next |-> "return", i |-> i]
    ELSE IF i + 1 < tries
         THEN [next |-> "retry", i |-> i + 1]
         ELSE [next |-> "raise", i |-> i + 1]

retryable_copy_message(i, tries, outcome) ==
    IF outcome = "ok" THEN [next |-> "return", i |-> i]
    ELSE IF outcome \in {"TimedOut", "NetworkError"}
         THEN IF i + 1 < tries
              THEN [next |-> "retry", i |-> i + 1]
              ELSE [next |-> "raise", i |-> i + 1]
    ELSE [next |-> "raise", i |-> i]

\* deep_link_start after claim_link returned: the reply sent, or the call
\* of gate_or_send.
deep_link_start(status, file_id) ==
    IF status = "INVALID" \/ file_id = NULL THEN "LinkInvalid"
    ELSE IF status = "NOT_OWNER" THEN "LinkBound"
    ELSE "gate_or_send"

\* gate_or_send after is_user_joined_all answered ok, up to its first await
\* of copy_message: the reply, the re-check data of the prompt it sent,
\* whether STORE.get was called and with what result, whether it goes on
\* to copy.
GateDecision(reply, data, store_get, rec, copy) ==
    [reply |-> reply, data |-> data, store_get |-> store_get, rec |-> rec,
     copy |-> copy]

gate_or_send_no_return(ok, fs, file_id) ==
    LET kb == build_join_keyboard(ForceSubTargets, ButtonsPerRow, JoinText,
                                  CallbackData(CB_DONE, file_id))
        rec == get(fs, file_id)
    IN IF rec = NoRecord
       THEN GateDecision("FileMissing", IF ok THEN NoData ELSE DoneButtonData(kb),
                         TRUE, NoRecord, FALSE)
       ELSE GateDecision("", IF ok THEN NoData ELSE DoneButtonData(kb),
                         TRUE, rec, TRUE)

gate_or_send_no_record_check(ok, fs, file_id) ==
    IF ~ok
    THEN LET kb == build_join_keyboard(ForceSubTargets, ButtonsPerRow, JoinText,
                                       CallbackData(CB_DONE, file_id))
         IN GateDecision("JoinRequired", DoneButtonData(kb), FALSE, NoRecord, FALSE)
    ELSE GateDecision("", NoData, TRUE, get(fs, file_id), TRUE)

gate_or_send(ok, fs, file_id) ==
    IF ~ok
    THEN LET kb == build_join_keyboard(ForceSubTargets, ButtonsPerRow, JoinText,
                                       CallbackData(CB_DONE, file_id))
         IN GateDecision("JoinRequired", DoneButtonData(kb), FALSE, NoRecord, FALSE)
    ELSE LET rec == get(fs, file_id)
         IN IF rec = NoRecord
            THEN GateDecision("FileMissing", NoData, TRUE, NoRecord, FALSE)
            ELSE GateDecision("", NoData, TRUE, rec, TRUE)

\* done_cb after its own is_user_joined_all answered ok: the alert, or the
\* call of gate_or_send with the file_id split off the callback data.
done_cb(data, ok) ==
    IF data.tag # CB_DONE THEN [reply |-> "Ignored", file_id |-> NULL]
    ELSE IF ~ok THEN [reply |-> "StillNotJoined", file_id |-> data.file_id]
    ELSE [reply |-> "gate_or_send", file_id |-> data.file_id]

\* A copy_message hand-off: the archive location and the destination chat.
Delivery(from_chat_id, message_id, chat_id) ==
    [from_chat_id |-> from_chat_id, message_id |-> message_id, chat_id |-> chat_id]
NoDelivery == Delivery(NULL, NULL, NULL)

\* A request in progress.
\*   user: the requesting identity; chat: msg.chat_id; asked: the identity
\*   gate_or_send passes to is_user_joined_all; claim: what claim_link
\*   returned in this request; gate: gate_or_send's check; got: STORE.get
\*   was called; i: the copy attempt.
NoRequest ==
    [h |-> "idle", pc |-> "idle", user |-> NULL, chat |-> NULL, code |-> NULL,
     file_id |-> NULL, claim |-> "", asked |-> NULL, gate |-> "",
     prompt_file |-> NULL, got |-> FALSE, message_id |-> NULL, i |-> 0]

Summary(r, reply, delivered) ==
    [h |-> r.h, user |-> r.user, chat |-> r.chat, code |-> r.code,
     file_id |-> r.file_id, claim |-> r.claim, asked |-> r.asked,
     gate |-> r.gate, prompt_file |-> r.prompt_file, got |-> r.got,
     reply |-> reply, delivered |-> delivered]

NoSummary == Summary(NoRequest, "", NoDelivery)

\* ------------------------------------------- values of the idle parts
\* No call of a function on its own is set up.
NoOut == [ok |-> FALSE, next |-> "", calls |-> 0, sleeps |-> 0, err |-> "", reply |-> ""]
NoCall == [f |-> "", done |-> FALSE]

\* A call of function f set up with its arguments, not yet made.
FnCall(f, targets, answers, tries, outs) ==
    [f |-> f, targets |-> targets, answers |-> answers, tries |-> tries,
     outs |-> outs, done |-> FALSE, out |-> NoOut]

\* A save_file handler before its first statement.
\*   n: candidates generated so far; code: the candidate kept; saves: calls
\*   of STORE.save_link made.
NoIngest ==
    [pc |-> "idle", file_id |-> NULL, n |-> 0, code |-> NULL, saves |-> 0]

\* No process runs save_file.
NoIngests == <<>>

IngestSummary(r, reply) ==
    [reply |-> reply, file_id |-> r.file_id, n |-> r.n, code |-> r.code,
     saves |-> r.saves]

NoIngestSummary == IngestSummary(NoIngest, "")

\* A store of one variant: its tables and what its last call returned.
NoReturn == [op |-> "none"]
EmptyStore == [files |-> <<>>, links |-> <<>>, res |-> NoReturn]

\* ------------------------------- Spec: storage calls, one at a time
Init ==
    /\ backend \in {"sqlite", "mongo"}
    /\ files = <<>>
    /\ links = <<>>
    /\ call = [p \in Procs |-> Idle]
    /\ ev = NoEvent
    /\ okSet = [c \in Codes |-> {}]
    /\ results = [p \in Procs |-> NoResult]
    /\ req = [p \in Procs |-> NoRequest]
    /\ prompts = {}
    /\ rv = NoSummary
    /\ fn = NoCall
    /\ ing = NoIngests
    /\ iv = NoIngestSummary
    /\ twin = [sqlite |-> EmptyStore, mongo |-> EmptyStore]

Upsert(rec) == UpsertStep(rec) /\ UNCHANGED <<results, auxvars, appvars>>
Get(file_id) == GetStep(file_id) /\ UNCHANGED <<results, auxvars, appvars>>
SaveLink(code, file_id) == SaveLinkStep(code, file_id) /\ UNCHANGED <<results, auxvars, appvars>>
GetFileIdByCode(code) == GetFileIdByCodeStep(code) /\ UNCHANGED <<results, auxvars, appvars>>
ClaimLink(code, user_id) == ClaimLinkStep(code, user_id) /\ UNCHANGED <<results, auxvars, appvars>>

Next ==
    \/ \E rec \in Records : Upsert(rec)
    \/ \E f \in FileIds : Get(f)
    \/ \E c \in Codes, f \in FileIds : SaveLink(c, f)
    \/ \E c \in Codes : GetFileIdByCode(c)
    \/ \E c \in Codes, u \in Users : ClaimLink(c, u)

Spec == Init /\ [][Next]_vars

\* ------------- SpecConc: clients whose claim_link statements interleave
\* The clients contend for one code: every statement of claim_link and
\* save_link names its row by code, so calls on other codes touch other rows.
Contended == CHOOSE c \in Codes : TRUE

ContendedFile == CHOOSE f \in FileIds : TRUE

ConcUpsert(rec) ==
    rec.file_id = ContendedFile /\ UpsertStep(rec) /\ UNCHANGED <<results, auxvars, appvars>>
ConcGet == GetStep(ContendedFile) /\ UNCHANGED <<results, auxvars, appvars>>
ConcSaveLink(file_id) == SaveLinkStep(Contended, file_id) /\ UNCHANGED <<results, auxvars, appvars>>
ConcGetFileIdByCode == GetFileIdByCodeStep(Contended) /\ UNCHANGED <<results, auxvars, appvars>>
ClaimLinkRead(p, user_id) ==
    ClaimLinkReadStep(p, Contended, user_id) /\ UNCHANGED <<results, auxvars, appvars>>
ClaimLinkUpdate(p) == ClaimLinkUpdateStep(p) /\ UNCHANGED <<results, auxvars, appvars>>
ClaimLinkRecheck(p) == ClaimLinkRecheckStep(p) /\ UNCHANGED <<results, auxvars, appvars>>

NextConc ==
    \/ \E rec \in Records : ConcUpsert(rec)
    \/ ConcGet
    \/ \E f \in FileIds : ConcSaveLink(f)
    \/ ConcGetFileIdByCode
    \/ \E p \in Procs, u \in Users : ClaimLinkRead(p, u)
    \/ \E p \in Procs : ClaimLinkUpdate(p)
    \/ \E p \in Procs : ClaimLinkRecheck(p)

SpecConc == Init /\ [][NextConc]_vars

\* ------- SpecRace: N identities, one first claim each, on a fresh code
InitRace ==
    /\ backend \in {"sqlite", "mongo"}
    /\ files = <<>>
    /\ \E f \in FileIds : links = [c \in {Contended} |-> LinkRow(f, NULL)]
    /\ call = [p \in Procs |-> Idle]
    /\ ev = NoEvent
    /\ okSet = [c \in Codes |-> {}]
    /\ results = [p \in Procs |-> NoResult]
    /\ req = [p \in Procs |-> NoRequest]
    /\ prompts = {}
    /\ rv = NoSummary
    /\ fn = NoCall
    /\ ing = NoIngests
    /\ iv = NoIngestSummary
    /\ twin = [sqlite |-> EmptyStore, mongo |-> EmptyStore]

\* The status the step just taken returned to process p, if it returned;
\* first: the call had read the owner unset (it is a first claim).
Returned(p, first) ==
    IF ev'.op = "claim_link"
    THEN [results EXCEPT ![p] = [status |-> ev'.status, first |-> first]]
    ELSE results

\* Process p is identity p and calls claim_link once.
RaceClaimRead(p) ==
    /\ results[p] = NoResult
    /\ ClaimLinkReadStep(p, Contended, p)
    /\ results' = Returned(p, FALSE)
    /\ UNCHANGED <<appvars, auxvars>>

RaceClaimUpdate(p) ==
    ClaimLinkUpdateStep(p) /\ results' = Returned(p, TRUE) /\ UNCHANGED <<appvars, auxvars>>
RaceClaimRecheck(p) ==
    ClaimLinkRecheckStep(p) /\ results' = Returned(p, TRUE) /\ UNCHANGED <<appvars, auxvars>>
RaceSaveLink(file_id) == SaveLinkStep(Contended, file_id) /\ UNCHANGED <<results, auxvars, appvars>>

NextRace ==
    \/ \E p \in Procs : RaceClaimRead(p)
    \/ \E p \in Procs : RaceClaimUpdate(p)
    \/ \E p \in Procs : RaceClaimRecheck(p)
    \/ \E f \in FileIds : RaceSaveLink(f)

SpecRace == InitRace /\ [][NextRace]_vars

\* -------------------------------- SpecApp: the bot's request handlers
\* The requests are about one code, saved as save_file leaves it (owner
\* unset) or not saved at all; FileRecords may be missing (removed out of
\* band).
InitApp ==
    /\ backend \in {"sqlite", "mongo"}
    /\ \E F \in SUBSET FileIds, m \in MsgIds :
          files = [f \in F |-> FileRecord(f, ChannelId, m, "document", "")]
    /\ \E D \in SUBSET {Contended}, f \in FileIds :
          links = [c \in D |-> LinkRow(f, NULL)]
    /\ call = [p \in Procs |-> Idle]
    /\ ev = NoEvent
    /\ okSet = [c \in Codes |-> {}]
    /\ results = [p \in Procs |-> NoResult]
    /\ req = [p \in Procs |-> NoRequest]
    /\ prompts = {}
    /\ rv = NoSummary
    /\ fn = NoCall
    /\ ing = NoIngests
    /\ iv = NoIngestSummary
    /\ twin = [sqlite |-> EmptyStore, mongo |-> EmptyStore]

Finish(p, r, reply, delivered) ==
    /\ rv' = Summary(r, reply, delivered)
    /\ req' = [req EXCEPT ![p] = NoRequest]

\* deep_link_start, once the claim_link step just taken is known.
AfterClaim(p, r) ==
    IF ev'.op # "claim_link"
    THEN /\ req' = [req EXCEPT ![p] = r]
         /\ rv' = NoSummary
    ELSE LET r2 == [r EXCEPT !.claim = ev'.status, !.file_id = ev'.out]
             o == deep_link_start(ev'.status, ev'.out)
         IN IF o = "gate_or_send"
            THEN /\ req' = [req EXCEPT ![p] =
                              [r2 EXCEPT !.pc = "gate", !.asked = r.user]]
                 /\ rv' = NoSummary
            ELSE Finish(p, r2, o, NoDelivery)

\* /start with no payload: start_cmd greets.
DeepLinkNoArgs(p, u) ==
    /\ req[p].h = "idle"
    /\ Finish(p, [NoRequest EXCEPT !.h = "deep_link_start", !.user = u, !.chat = u],
              "Start", NoDelivery)
    /\ ev' = NoEvent
    /\ UNCHANGED <<backend, files, links, call, okSet, results, auxvars, prompts>>

\* /start <code> by identity u in its chat: claim_link's first statement.
DeepLinkStart(p, u, code) ==
    /\ req[p].h = "idle"
    /\ ClaimLinkReadStep(p, code, u)
    /\ AfterClaim(p, [NoRequest EXCEPT !.h = "deep_link_start", !.pc = "claim",
                                        !.user = u, !.chat = u, !.code = code])
    /\ UNCHANGED <<results, auxvars, prompts>>

DeepLinkClaimUpdate(p) ==
    /\ req[p].pc = "claim"
    /\ ClaimLinkUpdateStep(p)
    /\ AfterClaim(p, req[p])
    /\ UNCHANGED <<results, auxvars, prompts>>

DeepLinkClaimRecheck(p) ==
    /\ req[p].pc = "claim"
    /\ ClaimLinkRecheckStep(p)
    /\ AfterClaim(p, req[p])
    /\ UNCHANGED <<results, auxvars, prompts>>

\* gate_or_send: is_user_joined_all has answered ok; prompt, or fetch and
\* start copying.
GateOrSend(p, ok) ==
    /\ req[p].pc = "gate"
    /\ LET r == req[p]
           d == gate_or_send(ok, files, r.file_id)
           r2 == [r EXCEPT !.gate = IF ok THEN "pass" ELSE "fail",
                           !.prompt_file = d.data.file_id,
                           !.got = d.store_get,
                           !.message_id = d.rec.db_message_id]
       IN /\ ev' = IF d.store_get
                   THEN Event("get", NULL, NULL, r.file_id, "", NULL, d.rec)
                   ELSE NoEvent
          /\ prompts' = IF d.data # NoData
                        THEN prompts \cup {[chat |-> r.chat, data |-> d.data]}
                        ELSE prompts
          /\ IF d.copy
             THEN /\ req' = [req EXCEPT ![p] = [r2 EXCEPT !.pc = "copy", !.i = 0]]
                  /\ rv' = NoSummary
             ELSE Finish(p, r2, d.reply, NoDelivery)
    /\ UNCHANGED <<backend, files, links, call, okSet, results, auxvars>>

\* One attempt of _retryable_copy_message inside gate_or_send's try block.
CopyMessage(p, outcome) ==
    /\ req[p].pc = "copy"
    /\ LET r == req[p]
           a == retryable_copy_message(r.i, Tries, outcome)
       IN CASE a.next = "return" ->
                 Finish(p, r, "Delivered", Delivery(ChannelId, r.message_id, r.chat))
            [] a.next = "retry" ->
                 /\ req' = [req EXCEPT ![p].i = a.i]
                 /\ rv' = NoSummary
            [] OTHER -> Finish(p, r, "DeliveryFailed", NoDelivery)
    /\ ev' = NoEvent
    /\ UNCHANGED <<backend, files, links, call, okSet, results, auxvars, prompts>>

\* The re-check button of a prompt on display is pressed in its chat; the
\* prompt is deleted best-effort when the check passes.
DoneCb(p, pr, ok, deleted) ==
    /\ req[p].h = "idle"
    /\ pr \in prompts
    /\ LET d == done_cb(pr.data, ok)
           r == [NoRequest EXCEPT !.h = "done_cb", !.user = pr.chat,
                                  !.chat = pr.chat, !.file_id = d.file_id]
       IN IF d.reply = "gate_or_send"
          THEN /\ req' = [req EXCEPT ![p] = [r EXCEPT !.pc = "gate", !.asked = BotId]]
               /\ rv' = NoSummary
               /\ prompts' = IF deleted THEN prompts \ {pr} ELSE prompts
          ELSE /\ Finish(p, r, d.reply, NoDelivery)
               /\ UNCHANGED prompts
    /\ ev' = NoEvent
    /\ UNCHANGED <<backend, files, links, call, okSet, results, auxvars>>

\* What is_user_joined_all can return, over every way the oracle may
\* answer for the configured targets.
GateAnswers == [1..NumTargets -> Answers]
GateResults == {is_user_joined_all(a, ForceSubTargets) : a \in GateAnswers}

NextApp ==
    \/ \E p \in Reqs, u \in Users : DeepLinkNoArgs(p, u)
    \/ \E p \in Reqs, u \in Users : DeepLinkStart(p, u, Contended)
    \/ \E p \in Reqs : DeepLinkClaimUpdate(p)
    \/ \E p \in Reqs : DeepLinkClaimRecheck(p)
    \/ \E p \in Reqs, ok \in GateResults : GateOrSend(p, ok)
    \/ \E p \in Reqs, o \in Outcomes : CopyMessage(p, o)
    \/ \E p \in Reqs, pr \in prompts, ok \in GateResults, del \in BOOLEAN :
          DoneCb(p, pr, ok, del)

SpecApp == InitApp /\ [][NextApp]_vars

\* ------------- SpecFn: is_user_joined_all and _retryable_copy_message
\* Each function is called on its own, on every input up to the bounds.
MaxTargets == 3      \* length of the target list passed to is_user_joined_all
MaxTries == 3        \* the tries passed to _retryable_copy_message

\* is_user_joined_all(context, user_id, targets): answers[i] is what the
\* oracle answers for targets[i] and user_id if it is asked.
JoinedCall(n, answers) ==
    FnCall("is_user_joined_all", [i \in 1..n |-> i], answers, 0, <<>>)

JoinedCalls ==
    UNION {{JoinedCall(n, a) : a \in [1..n -> Answers]} : n \in 0..MaxTargets}

\* except (TimedOut, NetworkError)
Transient == {"TimedOut", "NetworkError"}

\* The loop of _retryable_copy_message from attempt i on, outs[k] being what
\* the k-th copy_message call does: how it ends, the calls of copy_message
\* and of asyncio.sleep made, the error raised.  With tries = 0 the loop
\* body never runs and `raise last_err` raises None, a TypeError.
RECURSIVE copy_loop(_, _, _, _)
copy_loop(outs, tries, i, sleeps) ==
    IF i >= tries
    THEN [next |-> "raise", calls |-> i, sleeps |-> sleeps, err |-> "TypeError"]
    ELSE LET o == outs[i + 1]
             a == retryable_copy_message(i, tries, o)
             s == IF o \in Transient THEN sleeps + 1 ELSE sleeps
         IN CASE a.next = "return" ->
                   [next |-> "return", calls |-> i + 1, sleeps |-> s, err |-> ""]
              [] a.next = "retry" -> copy_loop(outs, tries, a.i, s)
              [] OTHER ->
                   [next |-> "raise", calls |-> i + 1, sleeps |-> s, err |-> o]

\* gate_or_send's try block around the call: any exception is logged and
\* answered with the delivery-failure reply.
gate_or_send_copy(next) ==
    IF next = "raise" THEN "DeliveryFailed" ELSE "Delivered"

CopyCall(tries, outs) ==
    FnCall("_retryable_copy_message", <<>>, <<>>, tries, outs)

CopyCalls ==
    UNION {{CopyCall(t, o) : o \in [1..t -> Outcomes]} : t \in 0..MaxTries}

InitFn ==
    /\ backend \in {"sqlite", "mongo"}
    /\ files = <<>>
    /\ links = <<>>
    /\ call = [p \in Procs |-> Idle]
    /\ ev = NoEvent
    /\ okSet = [c \in Codes |-> {}]
    /\ results = [p \in Procs |-> NoResult]
    /\ req = [p \in Procs |-> NoRequest]
    /\ prompts = {}
    /\ rv = NoSummary
    /\ fn \in JoinedCalls \cup CopyCalls
    /\ ing = NoIngests
    /\ iv = NoIngestSummary
    /\ twin = [sqlite |-> EmptyStore, mongo |-> EmptyStore]

IsUserJoinedAll ==
    /\ fn.f = "is_user_joined_all"
    /\ ~fn.done
    /\ fn' = [fn EXCEPT !.done = TRUE,
                        !.out.ok = is_user_joined_all(fn.answers, fn.targets)]
    /\ UNCHANGED <<backend, files, links, call, ev, okSet, results, appvars,
                   ing, iv, twin>>

RetryableCopyMessage ==
    /\ fn.f = "_retryable_copy_message"
    /\ ~fn.done
    /\ LET r == copy_loop(fn.outs, fn.tries, 0, 0) IN
         fn' = [fn EXCEPT !.done = TRUE,
                          !.out = [NoOut EXCEPT !.next = r.next, !.calls = r.calls,
                                                !.sleeps = r.sleeps, !.err = r.err,
                                                !.reply = gate_or_send_copy(r.next)]]
    /\ UNCHANGED <<backend, files, links, call, ev, okSet, results, appvars,
                   ing, iv, twin>>

NextFn ==
    \/ IsUserJoinedAll
    \/ RetryableCopyMessage

SpecFn == InitFn /\ [][NextFn]_vars

\* --------------------------------------- SpecIngest: save_file (ingest)
CodeAttempts == 20   \* for _ in range(20)

\* gen_code(10): some code.
gen_code == Codes

\* What msg carries: a document, or none of the kinds save_file stores.
MediaKinds == Kinds \cup {"none"}

\* How _retryable_copy_message(context, CFG.channel_id, ...) can end.
CopyResults == {copy_loop(o, Tries, 0, 0).next : o \in [1..Tries -> Outcomes]}

\* save_file up to its loop: where it returns, or that it goes on.
save_file_start(admin, kind, copy, has_username) ==
    IF ~admin THEN "Ignored"
    ELSE IF kind = "none" THEN "Ignored"
    ELSE IF copy = "raise" THEN "CopyFailed"
    ELSE IF ~has_username THEN "NoUsername"
    ELSE "loop"

\* One pass of `for _ in range(20)`: candidate number n + 1 was generated
\* and get_file_id_by_code found a file_id for it, or none.
save_file_candidate_extra(n, found) ==
    IF ~found THEN [next |-> "save", n |-> n + 1]
    ELSE IF n + 1 <= CodeAttempts THEN [next |-> "loop", n |-> n + 1]
    ELSE [next |-> "fail", n |-> n + 1]

save_file_candidate(n, found) ==
    IF ~found THEN [next |-> "save", n |-> n + 1]
    ELSE IF n + 1 < CodeAttempts THEN [next |-> "loop", n |-> n + 1]
    ELSE [next |-> "fail", n |-> n + 1]

\* ing with process p running r.
Running(p, r) == [q \in DOMAIN ing \cup {p} |-> IF q = p THEN r ELSE ing[q]]

EndIngest(p, r, reply) ==
    /\ iv' = IngestSummary(r, reply)
    /\ ing' = [q \in DOMAIN ing \ {p} |-> ing[q]]

\* save_file from its start to the loop: the admin and kind tests, the copy
\* into the archive channel, the upsert under a new uuid4, get_me.
IngestStart(p, admin, kind, copy, m, has_username) ==
    /\ p \notin DOMAIN ing
    /\ \E f \in FileIds \ DOMAIN files :
         LET o == save_file_start(admin, kind, copy, has_username)
             r == [NoIngest EXCEPT !.file_id = f]
         IN IF o \in {"Ignored", "CopyFailed"}
            THEN /\ EndIngest(p, NoIngest, o)
                 /\ ev' = NoEvent
                 /\ UNCHANGED files
            ELSE /\ LET rec == FileRecord(f, ChannelId, m, kind, "") IN
                      /\ files' = upsert(files, rec)
                      /\ ev' = Event("upsert", NULL, NULL, f, "", NULL, rec)
                 /\ IF o = "NoUsername"
                    THEN EndIngest(p, r, o)
                    ELSE /\ ing' = Running(p, [r EXCEPT !.pc = "loop"])
                         /\ iv' = NoIngestSummary
    /\ UNCHANGED <<backend, links, call, okSet, results, appvars, fn, twin>>

\* One pass of the loop: c = gen_code(10); STORE.get_file_id_by_code(c).
IngestCandidate(p, c) ==
    /\ p \in DOMAIN ing
    /\ ing[p].pc = "loop"
    /\ LET out == get_file_id_by_code(links, c)
           a == save_file_candidate(ing[p].n, out # NULL)
           r == [ing[p] EXCEPT !.n = a.n]
       IN /\ ev' = Event("get_file_id_by_code", c, NULL, NULL, "", out, NoRecord)
          /\ CASE a.next = "save" ->
                    /\ ing' = Running(p, [r EXCEPT !.pc = "save", !.code = c])
                    /\ iv' = NoIngestSummary
               [] a.next = "loop" ->
                    /\ ing' = Running(p, r)
                    /\ iv' = NoIngestSummary
               [] OTHER -> EndIngest(p, r, "GenFailed")
    /\ UNCHANGED <<backend, files, links, call, okSet, results, appvars, fn, twin>>

\* STORE.save_link(code, file_id) and the reply with the link.
IngestSaveLink(p) ==
    /\ p \in DOMAIN ing
    /\ ing[p].pc = "save"
    /\ links' = save_link(links, ing[p].code, ing[p].file_id)
    /\ ev' = Event("save_link", ing[p].code, NULL, ing[p].file_id, "", NULL, NoRecord)
    /\ EndIngest(p, [ing[p] EXCEPT !.saves = @ + 1], "Saved")
    /\ UNCHANGED <<backend, files, call, okSet, results, appvars, fn, twin>>

\* One bot process: its handlers run the loop and save_link without
\* suspending, so ingests follow one another.
Ingester == CHOOSE p \in Procs : TRUE

NextIngest ==
    \/ \E admin \in BOOLEAN, kind \in MediaKinds, copy \in CopyResults,
          m \in MsgIds, has_username \in BOOLEAN :
          IngestStart(Ingester, admin, kind, copy, m, has_username)
    \/ \E c \in gen_code : IngestCandidate(Ingester, c)
    \/ IngestSaveLink(Ingester)

SpecIngest == Init /\ [][NextIngest]_vars

\* Several bot processes on one shared store: the statements of their
\* ingests interleave.
NextIngestConc ==
    \/ \E p \in Procs, admin \in BOOLEAN, kind \in MediaKinds, copy \in CopyResults,
          m \in MsgIds, has_username \in BOOLEAN :
          IngestStart(p, admin, kind, copy, m, has_username)
    \/ \E p \in Procs, c \in gen_code : IngestCandidate(p, c)
    \/ \E p \in Procs : IngestSaveLink(p)

SpecIngestConc == Init /\ [][NextIngestConc]_vars

\* ---------- SpecParity: both variants given the same calls, one at a time
\* twin.sqlite is an SQLiteStorage and twin.mongo a MongoStorage, both
\* empty at first; every call is made on both, and res is what it returned.
Call2(sqlite, mongo) == [sqlite |-> sqlite, mongo |-> mongo]

InitParity ==
    /\ backend \in {"sqlite", "mongo"}
    /\ files = <<>>
    /\ links = <<>>
    /\ call = [p \in Procs |-> Idle]
    /\ ev = NoEvent
    /\ okSet = [c \in Codes |-> {}]
    /\ results = [p \in Procs |-> NoResult]
    /\ req = [p \in Procs |-> NoRequest]
    /\ prompts = {}
    /\ rv = NoSummary
    /\ fn = NoCall
    /\ ing = NoIngests
    /\ iv = NoIngestSummary
    /\ twin = Call2(EmptyStore, EmptyStore)

ParityFrame ==
    UNCHANGED <<backend, files, links, call, ev, okSet, results, appvars, fn, ing, iv>>

ParityUpsert(rec) ==
    /\ LET e == Event("upsert", NULL, NULL, rec.file_id, "", NULL, rec) IN
         twin' = Call2(
            [twin.sqlite EXCEPT !.files = SQLiteStorage_upsert(@, rec), !.res = e],
            [twin.mongo EXCEPT !.files = MongoStorage_upsert(@, rec), !.res = e])
    /\ ParityFrame

ParityGet(file_id) ==
    /\ twin' = Call2(
          [twin.sqlite EXCEPT !.res = Event("get", NULL, NULL, file_id, "", NULL,
                                  SQLiteStorage_get(twin.sqlite.files, file_id))],
          [twin.mongo EXCEPT !.res = Event("get", NULL, NULL, file_id, "", NULL,
                                  MongoStorage_get(twin.mongo.files, file_id))])
    /\ ParityFrame

ParitySaveLink(code, file_id) ==
    /\ LET e == Event("save_link", code, NULL, file_id, "", NULL, NoRecord) IN
         twin' = Call2(
            [twin.sqlite EXCEPT !.links = SQLiteStorage_save_link(@, code, file_id),
                                !.res = e],
            [twin.mongo EXCEPT !.links = MongoStorage_save_link(@, code, file_id),
                               !.res = e])
    /\ ParityFrame

ParityGetFileIdByCode(code) ==
    /\ twin' = Call2(
          [twin.sqlite EXCEPT !.res = Event("get_file_id_by_code", code, NULL, NULL, "",
                  SQLiteStorage_get_file_id_by_code(twin.sqlite.links, code), NoRecord)],
          [twin.mongo EXCEPT !.res = Event("get_file_id_by_code", code, NULL, NULL, "",
                  MongoStorage_get_file_id_by_code(twin.mongo.links, code), NoRecord)])
    /\ ParityFrame

ParityClaimLink(code, user_id) ==
    /\ LET s == SQLiteStorage_claim_link(twin.sqlite.links, code, user_id)
           m == MongoStorage_claim_link(twin.mongo.links, code, user_id)
       IN twin' = Call2(
             [twin.sqlite EXCEPT !.links = s.links,
                   !.res = Event("claim_link", code, user_id, NULL, s.status, s.out, NoRecord)],
             [twin.mongo EXCEPT !.links = m.links,
                   !.res = Event("claim_link", code, user_id, NULL, m.status, m.out, NoRecord)])
    /\ ParityFrame

NextParity ==
    \/ \E rec \in Records : ParityUpsert(rec)
    \/ \E f \in FileIds : ParityGet(f)
    \/ \E c \in Codes, f \in FileIds : ParitySaveLink(c, f)
    \/ \E c \in Codes : ParityGetFileIdByCode(c)
    \/ \E c \in Codes, u \in Users : ParityClaimLink(c, u)

SpecParity == InitParity /\ [][NextParity]_vars

\* =================================================================
\* Claims
\* =================================================================

\* C1. N >= 2 distinct identities each call claim_link on the same fresh
\* code, their statements interleaved in any order (SQLite and Mongo):
\* once all calls have returned, exactly one returned OK and every other
\* one returned NOT_OWNER.
AllReturned == \A p \in Procs : results[p].status # ""

C1_ExactlyOneWinner ==
    AllReturned =>
        /\ Cardinality({p \in Procs : results[p].status = "OK"}) = 1
        /\ Cardinality({p \in Procs : results[p].status = "NOT_OWNER"}) = NumProcs - 1

\* All N calls read the owner unset before any of them updated it, and all
\* have returned.
C1_Witness ==
    /\ NumProcs >= 2
    /\ AllReturned
    /\ \A p \in Procs : results[p].first

\* C2. Once a LinkRecord's owner is set it never changes and never becomes
\* unset, whatever calls interleave; so at most one identity ever received
\* OK for a code, and that identity is the stored owner.
OwnerKept ==
    \A c \in DOMAIN links :
        links[c].owner_user_id # NULL =>
            /\ c \in DOMAIN links'
            /\ links'[c].owner_user_id = links[c].owner_user_id

C2_OwnerImmutable ==
    /\ [][OwnerKept]_vars
    /\ [](\A c \in Codes :
            /\ Cardinality(okSet[c]) <= 1
            /\ \A u \in okSet[c] : c \in DOMAIN links /\ links[c].owner_user_id = u)

\* A save_link has just run on a code that is claimed while another claim
\* is in flight: the owner is still the identity that received OK.
C2_Witness ==
    /\ ev.op = "save_link"
    /\ okSet[ev.code] # {}
    /\ \E p \in Procs : call[p].pc # "idle"
    /\ links[ev.code].owner_user_id \in okSet[ev.code]

\* C3. After claim_link(c, A) returned OK, every claim_link(c, B) with
\* B # A that returns afterwards returns NOT_OWNER.
C3_OthersRefused ==
    [][(/\ ev'.op = "claim_link"
        /\ \E a \in okSet[ev'.code] : a # ev'.user)
       => ev'.status = "NOT_OWNER"]_vars

C3_Witness ==
    /\ ev.op = "claim_link"
    /\ ev.status = "NOT_OWNER"
    /\ okSet[ev.code] # {}
    /\ ev.user \notin okSet[ev.code]

\* C4. After claim_link(c, A) returned OK, every claim_link(c, A) invoked
\* later returns OK with the file_id stored for c at that moment and leaves
\* the links unchanged.  (A call invoked later reads the owner set.)
C4_OwnerReclaims ==
    [][(/\ ev'.op = "claim_link"
        /\ ~ev'.first
        /\ ev'.user \in okSet[ev'.code])
       => /\ ev'.status = "OK"
          /\ ev'.out = links[ev'.code].file_id
          /\ links' = links]_vars

\* The owner claimed again after the file_id of its code was re-saved.
C4_Witness ==
    /\ ev.op = "claim_link"
    /\ ev.status = "OK"
    /\ ~ev.first
    /\ ev.user \in okSet[ev.code]
    /\ \E p \in Procs : call[p].pc # "idle" /\ call[p].file_id # ev.out

\* C5. Whenever claim_link returns NOT_OWNER, the owner stored for the code
\* at that moment is set and differs from the caller.
C5_NotOwnerMeansOtherOwner ==
    [][(ev'.op = "claim_link" /\ ev'.status = "NOT_OWNER")
       => /\ ev'.code \in DOMAIN links'
          /\ links'[ev'.code].owner_user_id # NULL
          /\ links'[ev'.code].owner_user_id # ev'.user]_vars

\* SQLite alone: the loser of the conditional update re-reads the owner.
C5_SQLite ==
    [][(backend = "sqlite" /\ ev'.op = "claim_link" /\ ev'.status = "NOT_OWNER")
       => /\ ev'.code \in DOMAIN links'
          /\ links'[ev'.code].owner_user_id # NULL
          /\ links'[ev'.code].owner_user_id # ev'.user]_vars

\* C6. claim_link on a code with no LinkRecord returns INVALID and no
\* file_id for every identity and changes neither links nor files.
C6_UnknownCodeInvalid ==
    [][(ev'.op = "claim_link" /\ ev'.code \notin DOMAIN links)
       => /\ ev'.status = "INVALID"
          /\ ev'.out = NULL
          /\ links' = links
          /\ files' = files]_vars

C6_Witness ==
    /\ ev.op = "claim_link"
    /\ ev.status = "INVALID"
    /\ ev.code \notin DOMAIN links

\* C7. save_link(code, file_id) changes only the file_id of that code's
\* LinkRecord: the owner of an existing record is kept, a new record starts
\* with the owner unset, no other record and no FileRecord changes; and
\* get_file_id_by_code afterwards returns the file_id saved last.
C7_SaveLinkFrame ==
    /\ [][ev'.op = "save_link" =>
            /\ DOMAIN links' = DOMAIN links \cup {ev'.code}
            /\ links'[ev'.code].file_id = ev'.file_id
            /\ links'[ev'.code].owner_user_id =
                  (IF ev'.code \in DOMAIN links
                   THEN links[ev'.code].owner_user_id ELSE NULL)
            /\ \A c \in DOMAIN links : c # ev'.code => links'[c] = links[c]
            /\ files' = files
            /\ get_file_id_by_code(links', ev'.code) = ev'.file_id]_vars
    /\ [][(/\ ev.op = "save_link"
           /\ ev'.op = "get_file_id_by_code"
           /\ ev'.code = ev.code)
          => ev'.out = ev.file_id]_vars

\* save_link has replaced the file_id of a claimed code.
C7_Witness ==
    /\ ev.op = "save_link"
    /\ ev.file_id = NumFiles
    /\ links[ev.code].owner_user_id # NULL

\* C8. On a deep-link open, INVALID is reported as "link invalid or
\* expired" and NOT_OWNER as "link bound to another account"; NOT_OWNER is
\* never reported as the invalid-link outcome.
C8_ClaimOutcomesDistinct ==
    rv.h = "deep_link_start" =>
        /\ rv.claim = "INVALID" => rv.reply = "LinkInvalid"
        /\ rv.claim = "NOT_OWNER" => rv.reply = "LinkBound"

\* C9. Every hand-off to the Delivery Channel, from deep_link_start or from
\* done_cb, is preceded in the same request by a claim_link call that
\* returned OK for the requesting identity.
C9_DeliveryAfterClaim ==
    rv.delivered # NoDelivery => rv.claim = "OK"

\* C10. When gate_or_send's membership check fails, the request ends with
\* the join-required prompt whose re-check button carries the pending
\* file_id; nothing is delivered and STORE.get is not called.
C10_GateFailStops ==
    rv.gate = "fail" =>
        /\ rv.reply = "JoinRequired"
        /\ rv.prompt_file = rv.file_id
        /\ [chat |-> rv.chat, data |-> CallbackData(CB_DONE, rv.file_id)] \in prompts
        /\ rv.delivered = NoDelivery
        /\ ~rv.got

\* A deep-link open whose claim returned OK was refused by the gate.
C10_Witness ==
    /\ rv.h = "deep_link_start"
    /\ rv.claim = "OK"
    /\ rv.gate = "fail"
    /\ rv.file_id = NumFiles

\* C11. is_user_joined_all fails closed: it returns true for an empty
\* target list; for a non-empty list it returns false whenever some target
\* answers left or kicked, or the oracle raises for some target; it never
\* returns true after an oracle error.
C11_FailsClosed ==
    (fn.f = "is_user_joined_all" /\ fn.done) =>
        /\ fn.targets = <<>> => fn.out.ok
        /\ (\E i \in 1..Len(fn.targets) : fn.answers[i] \in {"left", "kicked", "error"})
              => ~fn.out.ok

\* The last of several targets raised after the earlier ones answered as
\* members: the call returned false.
C11_Witness ==
    /\ fn.f = "is_user_joined_all"
    /\ fn.done
    /\ Len(fn.targets) >= 2
    /\ \A i \in 1..(Len(fn.targets) - 1) : fn.answers[i] = "member"
    /\ fn.answers[Len(fn.targets)] = "error"
    /\ ~fn.out.ok

\* C12. is_user_joined_all returns true only if every target's answer is
\* an active-member status: a response with no status, or with a status
\* outside the known member statuses, counts as not satisfied.
ActiveStatuses == {"member", "administrator", "creator", "restricted"}

C12_OnlyActiveMembers ==
    (fn.f = "is_user_joined_all" /\ fn.done /\ fn.out.ok) =>
        \A i \in 1..Len(fn.targets) : fn.answers[i] \in ActiveStatuses

\* C13. An identity holding a valid claim was refused by the gate, joined
\* every required target and pressed the re-check button: if every
\* membership check made for that identity in the re-check request passes
\* and the FileRecord exists, the request goes on to call copy_message
\* with the FileRecord's archive location (delivered, or delivery failed).
C13_RecheckDelivers ==
    (/\ rv.h = "done_cb"
     /\ rv.reply \notin {"", "Ignored", "StillNotJoined"}
     /\ (rv.asked = rv.user => rv.gate = "pass")
     /\ rv.file_id \in DOMAIN files)
    => rv.reply \in {"Delivered", "DeliveryFailed"}

\* C14. When gate_or_send's check passes but STORE.get(file_id) finds no
\* FileRecord, the request ends with the "file no longer available" reply,
\* copy_message is never called, and the links (the code's LinkRecord and
\* its owner) stay as they were.
C14_MissingFileEnds ==
    [][(/\ rv'.gate = "pass"
        /\ rv'.file_id \notin DOMAIN files)
       => /\ rv'.reply = "FileMissing"
          /\ rv'.got
          /\ rv'.delivered = NoDelivery
          /\ links' = links]_vars

\* A deep-link open by the owner passed the gate and found the FileRecord
\* of its claimed code gone.
C14_Witness ==
    /\ rv.reply = "FileMissing"
    /\ rv.claim = "OK"
    /\ rv.gate = "pass"
    /\ rv.file_id \notin DOMAIN files
    /\ links[rv.code].owner_user_id = rv.user
    /\ links[rv.code].file_id = rv.file_id

\* C15. _retryable_copy_message ends for every sequence of copy_message
\* outcomes: it calls copy_message at most tries times; it returns at the
\* first successful attempt and makes no attempt after it; when every one
\* of its tries attempts fails with TimedOut or NetworkError it raises the
\* last of these errors, which gate_or_send answers with the
\* delivery-failure reply.
CopyDone == fn.f = "_retryable_copy_message" /\ fn.done

C15_BoundedRetry ==
    CopyDone =>
        /\ fn.out.next \in {"return", "raise"}
        /\ fn.out.calls <= fn.tries
        /\ fn.out.next = "return" =>
              /\ fn.outs[fn.out.calls] = "ok"
              /\ \A k \in 1..(fn.out.calls - 1) : fn.outs[k] # "ok"
        /\ \A k \in 1..fn.tries :
              (fn.outs[k] = "ok" /\ \A j \in 1..(k - 1) : fn.outs[j] \in Transient)
                 => (fn.out.next = "return" /\ fn.out.calls = k)
        /\ (fn.tries >= 1 /\ \A k \in 1..fn.tries : fn.outs[k] \in Transient) =>
              /\ fn.out.next = "raise"
              /\ fn.out.calls = fn.tries
              /\ fn.out.err = fn.outs[fn.tries]
              /\ fn.out.reply = "DeliveryFailed"

\* The default three attempts timed out, timed out and lost the network:
\* the NetworkError was raised.
C15_Witness ==
    /\ CopyDone
    /\ fn.tries = Tries
    /\ fn.outs = <<"TimedOut", "TimedOut", "NetworkError">>
    /\ fn.out.next = "raise"
    /\ fn.out.err = "NetworkError"
    /\ fn.out.calls = Tries

\* C16. In _retryable_copy_message a failure that is neither TimedOut nor
\* NetworkError propagates at once, on whichever attempt it occurs: it is
\* the error raised, no copy_message attempt follows it and no backoff
\* sleep follows it.
C16_NonTransientPropagates ==
    CopyDone =>
        \A k \in 1..fn.tries :
            (/\ fn.outs[k] \notin Transient \cup {"ok"}
             /\ \A j \in 1..(k - 1) : fn.outs[j] \in Transient)
            => /\ fn.out.next = "raise"
               /\ fn.out.err = fn.outs[k]
               /\ fn.out.calls = k
               /\ fn.out.sleeps = k - 1

\* The second attempt failed with Forbidden after the first timed out.
C16_Witness ==
    /\ CopyDone
    /\ fn.tries = Tries
    /\ fn.outs[1] = "TimedOut"
    /\ fn.outs[2] = "Forbidden"
    /\ fn.out.err = "Forbidden"
    /\ fn.out.calls = 2
    /\ fn.out.sleeps = 1

\* C17. save_file generates at most 20 candidate codes; it stops at the
\* first candidate for which get_file_id_by_code finds nothing and calls
\* save_link exactly once, with that candidate; if all 20 candidates are
\* taken it ends with the generation-failure reply and calls save_link
\* zero times.
Moved(p) == p \notin DOMAIN ing' \/ ing'[p] # ing[p]

C17_BoundedCandidates ==
    /\ [](/\ \A p \in DOMAIN ing :
               /\ ing[p].n <= CodeAttempts
               /\ ing[p].pc = "loop" => ing[p].n < CodeAttempts
               /\ ing[p].saves = 0
          /\ iv.n <= CodeAttempts
          /\ iv.reply = "Saved" => (iv.saves = 1 /\ iv.code # NULL)
          /\ iv.reply = "GenFailed" =>
                (iv.n = CodeAttempts /\ iv.saves = 0 /\ iv.code = NULL))
    /\ [][\A p \in DOMAIN ing :
            /\ (ev'.op = "get_file_id_by_code" /\ Moved(p)) =>
                  /\ ing[p].pc = "loop"
                  /\ ev'.out = get_file_id_by_code(links, ev'.code)
                  /\ ev'.out = NULL =>
                        (/\ p \in DOMAIN ing'
                         /\ ing'[p].pc = "save"
                         /\ ing'[p].code = ev'.code)
                  /\ ev'.out # NULL =>
                        (/\ links' = links
                         /\ p \in DOMAIN ing' => ing'[p].pc = "loop"
                         /\ p \notin DOMAIN ing' <=> iv'.reply = "GenFailed")
            /\ (ev'.op = "save_link" /\ Moved(p)) =>
                  /\ ing[p].pc = "save"
                  /\ ev'.code = ing[p].code
                  /\ ev'.file_id = ing[p].file_id
                  /\ iv'.reply = "Saved"
                  /\ p \notin DOMAIN ing']_vars

\* All 20 candidates of an ingest were taken.
C17_Witness ==
    /\ iv.reply = "GenFailed"
    /\ iv.n = CodeAttempts
    /\ ev.op = "get_file_id_by_code"
    /\ ev.out # NULL

\* C19. An ingest never rebinds an existing code: save_file calls
\* save_link(code, file_id) only while no LinkRecord exists for the code,
\* so no ingest changes the file_id of an existing LinkRecord, also when
\* ingests of different processes interleave their get_file_id_by_code
\* check and their save_link on the shared store.
C19_IngestNeverRebinds ==
    [][/\ ev'.op = "save_link" => ev'.code \notin DOMAIN links
       /\ \A c \in DOMAIN links :
             c \in DOMAIN links' /\ links'[c].file_id = links[c].file_id]_vars

\* C18. Backend parity: after every finite sequence of upsert, get,
\* save_link, get_file_id_by_code and claim_link calls made one at a time
\* on an empty SQLiteStorage and an empty MongoStorage, both returned the
\* same result for the call just made and hold the same files and links
\* (code, file_id, owner).
C18_BackendParity ==
    /\ twin.sqlite.res = twin.mongo.res
    /\ twin.sqlite.files = twin.mongo.files
    /\ twin.sqlite.links = twin.mongo.links

\* Both variants refused a claim on a code whose file_id was re-saved while
\* another identity owned it, and both hold a FileRecord.
C18_Witness ==
    /\ twin.sqlite.res.op = "claim_link"
    /\ twin.sqlite.res.status = "NOT_OWNER"
    /\ twin.mongo.res.status = "NOT_OWNER"
    /\ twin.mongo.links[twin.mongo.res.code].file_id = NumFiles
    /\ twin.mongo.links[twin.mongo.res.code].owner_user_id \in Users
    /\ DOMAIN twin.sqlite.files # {}

\* C20. In the re-check flow every membership check made before delivery is
\* made for the identity that pressed the re-check button: the check in
\* done_cb and the check repeated inside gate_or_send both ask the oracle
\* about that identity, never about the author of the prompt message.
C20_RecheckAsksPresser ==
    (rv.h = "done_cb" /\ rv.gate # "") =>
        /\ rv.asked = rv.user
        /\ rv.asked # BotId

====
